---- MODULE Spec2Model ----
(***************************************************************************)
(* PathSource of src/cargo/sources/path.rs: the Fresh/Updated life cycle,  *)
(* the include/exclude filter, the two file enumerators (git index and     *)
(* directory walk) and the mtime fingerprint.                              *)
(*                                                                         *)
(* A path is a sequence of component names, <<"p", "sub", "b.rs">> for     *)
(* /p/sub/b.rs.  The text a glob pattern is matched against is a sequence  *)
(* of tokens: every component is split into its stem and its extension and *)
(* components are separated by the token "/".                              *)
(*                                                                         *)
(* The build is the unix one (join never fails).  Directory entries and    *)
(* index entries are visited in the order of Listing; the claims read the  *)
(* results as sets.  I/O errors of read_dir and of repo.index() are not    *)
(* modelled.  The package reader gives distinct packages distinct ids.     *)
(***************************************************************************)
EXTENDS Integers, Sequences, FiniteSets, TLC

VARIABLES
    updated,    \* PathSource.updated
    packages,   \* PathSource.packages
    disk,       \* the file system: path -> [kind, mtime]
    git,        \* the repositories: directory -> [kind, index, submodules]
    manifest,   \* what the manifest of each package directory declares
    env,        \* number of changes made to the disk by other processes
    last        \* the last call and what it returned

vars == <<updated, packages, disk, git, manifest, env, last>>

-----------------------------------------------------------------------------
(* Bounds *)

\* Other processes change the disk at most this many times.
MaxEnv == 1
\* The latest modification time a touch sets.
MaxTime == 13

-----------------------------------------------------------------------------
(* Paths *)

Root == <<"p">>
Sub == <<"p", "sub">>
Sm == <<"p", "sm">>

Last(s) == s[Len(s)]
Parent(p) == SubSeq(p, 1, Len(p) - 1)

\* Path::starts_with: a component-wise prefix.
StartsWith(path, base) ==
    /\ Len(base) <= Len(path)
    /\ SubSeq(path, 1, Len(base)) = base

\* Path::relative_from, for a path under base.
RelativeFrom(path, base) == SubSeq(path, Len(base) + 1, Len(path))

\* The characters of a component name, in tokens.
Text(name) ==
    CASE name = "Cargo.toml" -> <<"Cargo", ".toml">>
      [] name = "Cargo.lock" -> <<"Cargo", ".lock">>
      [] name = "a.rs" -> <<"a", ".rs">>
      [] name = "b.rs" -> <<"b", ".rs">>
      [] name = "c.rs" -> <<"c", ".rs">>
      [] name = "t.rs" -> <<"t", ".rs">>
      [] name = "n.tmp" -> <<"n", ".tmp">>
      [] OTHER -> <<name>>

\* The text of a relative path, components separated by "/".
RECURSIVE ToStr(_)
ToStr(rel) ==
    IF rel = <<>> THEN <<>>
    ELSE IF Len(rel) = 1 THEN Text(rel[1])
    ELSE Text(rel[1]) \o <<"/">> \o ToStr(Tail(rel))

-----------------------------------------------------------------------------
(* Patterns: glob::Pattern.  "*" matches any run of characters, the path   *)
(* separator included (matches_path uses the default MatchOptions); any    *)
(* other token matches itself.  A pattern with an unclosed "[" does not    *)
(* compile.                                                                *)

PatternNew(p) == \A i \in DOMAIN p : p[i] # "["

RECURSIVE Matches(_, _)
Matches(pat, s) ==
    IF pat = <<>> THEN s = <<>>
    ELSE IF Head(pat) = "*"
         THEN Matches(Tail(pat), s) \/ (s # <<>> /\ Matches(pat, Tail(s)))
         ELSE s # <<>> /\ Head(s) = Head(pat) /\ Matches(Tail(pat), Tail(s))

\* Iterator::any over a pattern list.
RECURSIVE AnyMatches(_, _)
AnyMatches(pats, s) ==
    IF pats = <<>> THEN FALSE
    ELSE Matches(Head(pats), s) \/ AnyMatches(Tail(pats), s)

\* A mutation of the filter: exclude patterns veto an include match.
FilterExcludeWins(include, exclude, root, p) ==
    LET relative_path == ToStr(RelativeFrom(p, root))
    IN  /\ (AnyMatches(include, relative_path) \/ Len(include) = 0)
        /\ ~AnyMatches(exclude, relative_path)

\* The closure `filter` of list_files.
Filter(include, exclude, root, p) ==
    LET relative_path == ToStr(RelativeFrom(p, root))
    IN  \/ AnyMatches(include, relative_path)
        \/ /\ Len(include) = 0
           /\ ~AnyMatches(exclude, relative_path)

-----------------------------------------------------------------------------
(* The file system *)

\* Every path the model's trees can hold, in directory-listing order.
Listing == <<
    <<"p">>,
    <<"p", ".git">>, <<"p", ".git", "HEAD">>,
    <<"p", "Cargo.toml">>, <<"p", "Cargo.lock">>,
    <<"p", "a.rs">>, <<"p", "n.tmp">>,
    <<"p", "target">>, <<"p", "target", "t.rs">>,
    <<"p", "sub">>, <<"p", "sub", ".git">>,
    <<"p", "sub", "Cargo.toml">>, <<"p", "sub", "Cargo.lock">>,
    <<"p", "sub", "b.rs">>,
    <<"p", "sm">>, <<"p", "sm", ".git">>,
    <<"p", "sm", "Cargo.lock">>, <<"p", "sm", "c.rs">> >>

Universe == {Listing[i] : i \in DOMAIN Listing}

Kind(p) == IF p \in Universe THEN disk[p].kind ELSE "none"
IsDir(p) == Kind(p) = "dir"
Exists(p) == Kind(p) # "none"

\* fs::read_dir: the entries of a directory.
ReadDir(path) ==
    SelectSeq(Listing, LAMBDA q : Len(q) = Len(path) + 1 /\ Parent(q) = path
                                   /\ Exists(q))

\* Path::metadata().map(|s| s.modified()): a missing file has no metadata.
Modified(p) == IF Exists(p) THEN <<TRUE, disk[p].mtime>> ELSE <<FALSE, 0>>

-----------------------------------------------------------------------------
(* Results: CargoResult<T> *)

Ok(v) == [ok |-> TRUE, val |-> v, err |-> "none"]
Err(e) == [ok |-> FALSE, val |-> <<>>, err |-> e]

\* Package equality is equality of package ids.
SamePkg(a, b) == a.id = b.id

-----------------------------------------------------------------------------
(* list_files_walk *)

\* The entries `walk` does not descend into.
WalkSkips(is_root, name) ==
    \/ name = ".git"
    \/ is_root /\ name = "target"
    \/ is_root /\ name = "Cargo.lock"

RECURSIVE walk(_, _, _), WalkEntries(_, _, _)
\* The files `walk` pushes to `ret`, in order.
walk(path, is_root, pkg) ==
    IF ~IsDir(path)
    THEN IF Filter(pkg.include, pkg.exclude, pkg.root, path)
         THEN <<path>> ELSE <<>>
    ELSE IF ~is_root /\ Exists(path \o <<"Cargo.toml">>) THEN <<>>
    ELSE WalkEntries(ReadDir(path), is_root, pkg)

\* The loop of `walk` over the entries of a directory.
WalkEntries(dirs, is_root, pkg) ==
    IF dirs = <<>> THEN <<>>
    ELSE LET dir == Head(dirs)
         IN  (IF WalkSkips(is_root, Last(dir)) THEN <<>>
              ELSE walk(dir, FALSE, pkg))
             \o WalkEntries(Tail(dirs), is_root, pkg)

\* The loop of list_files_walk over the stored packages equal to pkg.
RECURSIVE WalkPackages(_, _)
WalkPackages(pkgs, pkg) ==
    IF pkgs = <<>> THEN <<>>
    ELSE (IF SamePkg(Head(pkgs), pkg)
          THEN walk(Head(pkgs).root, TRUE, pkg) ELSE <<>>)
         \o WalkPackages(Tail(pkgs), pkg)

\* A mutation of list_files_walk: the root of pkg is walked whether or not
\* pkg is stored.
list_files_walk_any(pkg) == Ok(walk(pkg.root, TRUE, pkg))

list_files_walk(pkg) == Ok(WalkPackages(packages, pkg))

-----------------------------------------------------------------------------
(* list_files_git *)

\* A mutation of the sub-package test: nothing is skipped.
InSubPackageNever(pkg, file_path) == FALSE

\* Whether a file belongs to another stored package nested under pkg.
InSubPackage(pkg, file_path) ==
    \E i \in DOMAIN packages :
        /\ ~SamePkg(packages[i], pkg)
        /\ StartsWith(packages[i].root, pkg.root)
        /\ StartsWith(file_path, packages[i].root)

\* The index entries skipped as Cargo.lock and target.
GitSkips(fname) == fname = <<"Cargo.lock">> \/ fname = <<"target">>

\* Submodule::open: the submodule is checked out.
SubmoduleOpens(dir) == dir \in DOMAIN git /\ git[dir].kind # "none"

RECURSIVE list_files_git(_, _), GitEntries(_, _, _)
\* repo is the directory of the opened repository.
list_files_git(pkg, repo) ==
    IF git[repo].kind = "bare" THEN Err("bare repository")
    ELSE GitEntries(pkg, repo, git[repo].index)

\* The loop over index.iter().
GitEntries(pkg, repo, entries) ==
    IF entries = <<>> THEN Ok(<<>>)
    ELSE LET fname == Head(entries)
             file_path == repo \o fname
             this ==
               IF ~StartsWith(file_path, pkg.root) THEN Ok(<<>>)
               ELSE IF GitSkips(fname) THEN Ok(<<>>)
               ELSE IF InSubPackage(pkg, file_path) THEN Ok(<<>>)
               ELSE IF IsDir(file_path)
                    THEN IF fname \notin git[repo].submodules
                         THEN Err("no submodule")
                         ELSE IF ~SubmoduleOpens(file_path) THEN Ok(<<>>)
                         ELSE list_files_git(pkg, file_path)
               ELSE IF Filter(pkg.include, pkg.exclude, pkg.root, file_path)
                    THEN Ok(<<file_path>>)
               ELSE Ok(<<>>)
         IN  IF ~this.ok THEN this
             ELSE LET rest == GitEntries(pkg, repo, Tail(entries))
                  IN  IF ~rest.ok THEN rest
                      ELSE Ok(this.val \o rest.val)

-----------------------------------------------------------------------------
(* list_files *)

\* The roots of the stored packages that are ancestors of (or equal to) the
\* root of pkg and open as a repository, in the order of the collection.
RepoCandidates(pkg) ==
    SelectSeq([i \in DOMAIN packages |-> packages[i].root],
              LAMBDA path : StartsWith(pkg.root, path) /\ path \in DOMAIN git
                            /\ git[path].kind # "none")

list_files(pkg) ==
    IF \E i \in DOMAIN pkg.exclude : ~PatternNew(pkg.exclude[i])
    THEN Err("could not parse pattern")
    ELSE IF \E i \in DOMAIN pkg.include : ~PatternNew(pkg.include[i])
    THEN Err("could not parse pattern")
    ELSE IF RepoCandidates(pkg) # <<>>
         THEN list_files_git(pkg, Head(RepoCandidates(pkg)))
         ELSE list_files_walk(pkg)

-----------------------------------------------------------------------------
(* fingerprint *)

Digit == <<"0", "1", "2", "3", "4", "5", "6", "7", "8", "9">>

\* u64::to_string: the decimal digits, most significant first.
RECURSIVE to_string(_)
to_string(n) ==
    IF n < 10 THEN <<Digit[n + 1]>>
    ELSE to_string(n \div 10) \o <<Digit[(n % 10) + 1]>>

\* A mutation of cmp::max: the smaller of the two.
Min(a, b) == IF a <= b THEN a ELSE b

\* cmp::max
Max(a, b) == IF a >= b THEN a ELSE b

\* The mtime read for a listed file: 0 when its metadata cannot be read
\* (the file is gone, or is in `unreadable`).
Mtime(file, unreadable) ==
    IF file \in unreadable \/ ~Modified(file)[1] THEN 0 ELSE Modified(file)[2]

\* A mutation of the loop: the last file's mtime instead of the maximum.
RECURSIVE MaxMtimeLast(_, _, _)
MaxMtimeLast(files, unreadable, max) ==
    IF files = <<>> THEN max
    ELSE MaxMtimeLast(Tail(files), unreadable, Mtime(Head(files), unreadable))

\* The loop of fingerprint over the listed files.
RECURSIVE MaxMtime(_, _, _)
MaxMtime(files, unreadable, max) ==
    IF files = <<>> THEN max
    ELSE MaxMtime(Tail(files), unreadable,
                  Max(max, Mtime(Head(files), unreadable)))

\* `listed` is what list_files(pkg) returns when fingerprint calls it.
fingerprint(listed, unreadable) ==
    IF ~updated THEN Err("BUG: source was not updated")
    ELSE IF ~listed.ok THEN listed
    ELSE Ok(to_string(MaxMtime(listed.val, unreadable, 0)))

\* A mutation of root_package: the updated flag is not tested.
root_package_unchecked ==
    LET found == SelectSeq(packages, LAMBDA p : p.root = Root)
    IN  IF found # <<>> THEN Ok(Head(found))
        ELSE Err("no package found in source")

\* PathSource::root_package
root_package ==
    IF ~updated THEN Err("source has not been updated")
    ELSE LET found == SelectSeq(packages, LAMBDA p : p.root = Root)
         IN  IF found # <<>> THEN Ok(Head(found))
             ELSE Err("no package found in source")

-----------------------------------------------------------------------------
(* The trees the source is constructed on *)

InitMtime(p) ==
    CASE p = <<"p", "Cargo.toml">> -> 4
      [] p = <<"p", "Cargo.lock">> -> 12
      [] p = <<"p", "a.rs">> -> 7
      [] p = <<"p", "n.tmp">> -> 9
      [] p = <<"p", "target", "t.rs">> -> 11
      [] p = <<"p", "sub", "Cargo.toml">> -> 3
      [] p = <<"p", "sub", "Cargo.lock">> -> 12
      [] p = <<"p", "sub", "b.rs">> -> 8
      [] p = <<"p", "sm", "Cargo.lock">> -> 6
      [] p = <<"p", "sm", "c.rs">> -> 10
      [] OTHER -> 5

\* The include and exclude lists a manifest can declare.
Configs == {
    [include |-> <<>>, exclude |-> <<>>],
    [include |-> <<>>, exclude |-> << <<"*", ".tmp">> >>],
    [include |-> << <<"*", ".rs">>, <<"Cargo", ".lock">> >>,
     exclude |-> << <<"a", ".rs">> >>],
    [include |-> <<>>, exclude |-> << <<"[">> >>] }

\* Every pattern of the lists compiles.
WellFormed(pkg) ==
    /\ \A i \in DOMAIN pkg.include : PatternNew(pkg.include[i])
    /\ \A i \in DOMAIN pkg.exclude : PatternNew(pkg.exclude[i])

\* A tree: whether Cargo.lock and target exist, what /p/sub is (absent, a
\* plain directory, a package), whether /p is a git working tree (or a bare
\* repository), the state of the submodule /p/sm (none, its directory
\* absent, empty, checked out, or a checked-out repository that .gitmodules
\* does not declare), whether n.tmp is ignored by git, whether /p/sub is a
\* repository of its own.
Layouts ==
    { L \in [reserved : BOOLEAN, sub : {"none", "dir", "pkg"},
             rootgit : {"none", "work", "bare"},
             sm : {"none", "absent", "empty", "open", "undeclared"},
             ignoreTmp : BOOLEAN, subRepo : BOOLEAN] :
        /\ L.sm # "none" =>
              L.rootgit = "work" /\ ~L.ignoreTmp /\ L.reserved /\ L.sub # "dir"
        /\ L.ignoreTmp => L.rootgit = "work" /\ L.reserved /\ L.sub = "pkg"
        /\ L.subRepo => L.sub = "pkg" /\ L.rootgit = "none"
        /\ L.rootgit = "bare" => ~L.reserved /\ L.sub = "none" }

KindIn(L, p) ==
    LET name == Last(p)
        on == CASE p = Root -> TRUE
                [] Parent(p) = Root /\ name \in {"Cargo.toml", "a.rs", "n.tmp"}
                     -> TRUE
                [] Parent(p) = Root /\ name \in {"Cargo.lock", "target"}
                     -> L.reserved
                [] p = <<"p", "target", "t.rs">> -> L.reserved
                [] p = <<"p", ".git">> \/ p = <<"p", ".git", "HEAD">>
                     -> L.rootgit = "work"
                [] p = Sub \/ p = Sub \o <<"b.rs">> -> L.sub # "none"
                [] p = Sub \o <<"Cargo.toml">> -> L.sub = "pkg"
                [] p = Sub \o <<"Cargo.lock">> -> L.sub # "none" /\ L.reserved
                [] p = Sub \o <<".git">> -> L.subRepo
                [] p = Sm -> L.sm \in {"empty", "open", "undeclared"}
                [] Parent(p) = Sm -> L.sm \in {"open", "undeclared"}
                [] OTHER -> FALSE
    IN  IF ~on THEN "none"
        ELSE IF name \in {"p", ".git", "target", "sub", "sm"} THEN "dir"
        ELSE "file"

DiskOf(L) == [p \in Universe |-> [kind |-> KindIn(L, p), mtime |-> InitMtime(p)]]

\* The files of the tree under repo that its index tracks: none inside a .git
\* directory, none under the directories of `nested`, none of `ignored`.
Tracked(L, repo, nested, ignored) ==
    LET files == SelectSeq(Listing, LAMBDA q :
                    /\ KindIn(L, q) = "file"
                    /\ StartsWith(q, repo)
                    /\ \A i \in DOMAIN q : q[i] # ".git"
                    /\ \A d \in nested : ~StartsWith(q, d)
                    /\ q \notin ignored)
    IN  [i \in DOMAIN files |-> RelativeFrom(files[i], repo)]

GitOf(L) ==
    [d \in {Root, Sub, Sm} |->
        CASE d = Root ->
               [kind |-> L.rootgit,
                index |-> Tracked(L, Root, {Sm},
                                  IF L.ignoreTmp THEN {<<"p", "n.tmp">>} ELSE {})
                          \o (IF L.sm = "none" THEN <<>> ELSE << <<"sm">> >>),
                submodules |-> IF L.sm \in {"absent", "empty", "open"}
                               THEN {<<"sm">>} ELSE {}]
          [] d = Sub ->
               [kind |-> IF L.subRepo THEN "work" ELSE "none",
                index |-> Tracked(L, Sub, {}, {}),
                submodules |-> {}]
          [] d = Sm ->
               [kind |-> IF L.sm \in {"open", "undeclared"} THEN "work"
                         ELSE "none",
                index |-> Tracked(L, Sm, {}, {}),
                submodules |-> {}]]

\* The manifests of /p and /p/sub declare the same lists, but only that of
\* /p lists that do not compile.
ManifestOf(c) ==
    [d \in {Root, Sub} |->
        IF d = Root \/ WellFormed(c)
        THEN c ELSE [include |-> <<>>, exclude |-> <<>>]]

-----------------------------------------------------------------------------
(* The package reader, ops::read_packages: every package of the tree, one   *)
(* per directory that holds a manifest; an error when there is none.       *)

PackageAt(d) ==
    [id |-> IF d = Root THEN 1 ELSE 2, root |-> d,
     include |-> manifest[d].include, exclude |-> manifest[d].exclude]

ReaderFinds ==
    LET dirs == SelectSeq(<<Root, Sub>>,
                          LAMBDA d : Kind(d \o <<"Cargo.toml">>) = "file")
    IN  [i \in DOMAIN dirs |-> PackageAt(dirs[i])]

\* What a call of the reader can return.
ReaderResults ==
    {Err("reader failed")} \cup (IF ReaderFinds = <<>> THEN {} ELSE {Ok(ReaderFinds)})

\* A package of another source, with the directory of /p/sub as its root.
Other == [id |-> 3, root |-> Sub, include |-> <<>>, exclude |-> <<>>]

\* The packages a caller can pass: the stored ones, those the reader finds,
\* and Other.
PkgInputs ==
    {packages[i] : i \in DOMAIN packages}
        \cup {ReaderFinds[i] : i \in DOMAIN ReaderFinds} \cup {Other}

-----------------------------------------------------------------------------
(* The source *)

\* PathSource::new on a tree.
Init ==
    \E L \in Layouts, c \in Configs :
        /\ WellFormed(c) \/ (L.rootgit # "bare" /\ L.sub = "pkg" /\ L.sm = "none")
        /\ updated = FALSE
        /\ packages = <<>>
        /\ disk = DiskOf(L)
        /\ git = GitOf(L)
        /\ manifest = ManifestOf(c)
        /\ env = 0
        /\ last = [op |-> "new"]

\* A mutation of update: the reader is called and its packages are appended
\* whether or not the source is updated.
UpdateAlways ==
    /\ \E r \in ReaderResults :
          /\ IF r.ok
             THEN packages' = packages \o r.val /\ updated' = TRUE
             ELSE UNCHANGED <<packages, updated>>
          /\ last' = [op |-> "update", reader |-> TRUE,
                      res |-> IF r.ok THEN Ok(<<>>) ELSE r]
    /\ UNCHANGED <<disk, git, manifest, env>>

\* Source::update, with the call of read_packages inlined.  `reader` tells
\* whether the package reader was called.
Update ==
    /\ IF updated
       THEN /\ last' = [op |-> "update", reader |-> FALSE, res |-> Ok(<<>>)]
            /\ UNCHANGED <<updated, packages>>
       ELSE \E r \in ReaderResults :
               /\ IF r.ok
                  THEN packages' = packages \o r.val /\ updated' = TRUE
                  ELSE UNCHANGED <<packages, updated>>
               /\ last' = [op |-> "update", reader |-> TRUE,
                           res |-> IF r.ok THEN Ok(<<>>) ELSE r]
    /\ UNCHANGED <<disk, git, manifest, env>>

\* PathSource::read_packages, called by itself.
ReadPackages ==
    /\ IF updated
       THEN last' = [op |-> "read_packages", reader |-> FALSE,
                     res |-> Ok(packages)]
       ELSE \E r \in ReaderResults :
               last' = [op |-> "read_packages", reader |-> TRUE, res |-> r]
    /\ UNCHANGED <<updated, packages, disk, git, manifest, env>>

RootPackage ==
    /\ last' = [op |-> "root_package", res |-> root_package]
    /\ UNCHANGED <<updated, packages, disk, git, manifest, env>>

ListFiles ==
    \E pkg \in PkgInputs :
        /\ last' = [op |-> "list_files", pkg |-> pkg, res |-> list_files(pkg)]
        /\ UNCHANGED <<updated, packages, disk, git, manifest, env>>

\* The files other processes write, and those they remove.
Touchable == {<<"p", "a.rs">>, <<"p", "sub", "b.rs">>, <<"p", "sm", "c.rs">>}
Removable == {<<"p", "Cargo.toml">>, <<"p", "sub", "Cargo.toml">>,
              <<"p", "a.rs">>}

\* The sets of listed files whose metadata cannot be read although the tree
\* holds them (removed between the listing and the stat, or not permitted):
\* none, all, or a single one of the files other processes write.
UnreadableChoices(files) ==
    LET all == {files[i] : i \in DOMAIN files}
    IN  {{}, all} \cup {{f} : f \in all \cap Touchable}

\* Source::fingerprint.  `listed` is what its call of list_files returned
\* (nothing when the source is not updated); `after` is the touch this call
\* directly follows, with the fingerprint before it.
Fingerprint ==
    \E pkg \in PkgInputs :
        LET listed == IF updated THEN list_files(pkg) ELSE Err("not called")
        IN  \E unreadable \in UnreadableChoices(listed.val) :
              /\ last' = [op |-> "fingerprint", pkg |-> pkg,
                          unreadable |-> unreadable, listed |-> listed,
                          res |-> fingerprint(listed, unreadable),
                          after |-> IF last.op = "touch" THEN last
                                    ELSE [op |-> "none"]]
              /\ UNCHANGED <<updated, packages, disk, git, manifest, env>>

\* Source::get
Get ==
    \E ids \in {{1}, {1, 2}} :
        /\ last' = [op |-> "get", ids |-> ids,
                    res |-> Ok(SelectSeq(packages, LAMBDA p : p.id \in ids))]
        /\ UNCHANGED <<updated, packages, disk, git, manifest, env>>

\* Source::download
Download ==
    /\ last' = [op |-> "download", res |-> Ok(<<>>)]
    /\ UNCHANGED <<updated, packages, disk, git, manifest, env>>

-----------------------------------------------------------------------------
(* Other processes *)

\* A file is written: its modification time rises.  `before` is the
\* successful fingerprint call, with every file readable, that the touch
\* directly follows.
Touch ==
    \E f \in Touchable :
        /\ env < MaxEnv
        /\ Kind(f) = "file"
        /\ \E t \in {disk[f].mtime + 1, MaxTime} :
              /\ t > disk[f].mtime
              /\ disk' = [disk EXCEPT ![f].mtime = t]
              /\ last' = [op |-> "touch", path |-> f, mtime |-> t,
                          before |-> IF /\ last.op = "fingerprint"
                                        /\ last.res.ok
                                        /\ last.unreadable = {}
                                     THEN [op |-> "fingerprint",
                                           pkg |-> last.pkg,
                                           listed |-> last.listed,
                                           res |-> last.res]
                                     ELSE [op |-> "none"]]
        /\ env' = env + 1
        /\ UNCHANGED <<updated, packages, git, manifest>>

\* A file is removed.
Remove ==
    \E f \in Removable :
        /\ env < MaxEnv
        /\ Kind(f) = "file"
        /\ disk' = [disk EXCEPT ![f].kind = "none"]
        /\ env' = env + 1
        /\ last' = [op |-> "remove", path |-> f]
        /\ UNCHANGED <<updated, packages, git, manifest>>

Next ==
    \/ Update
    \/ ReadPackages
    \/ RootPackage
    \/ ListFiles
    \/ Fingerprint
    \/ Get
    \/ Download
    \/ Touch
    \/ Remove

Spec == Init /\ [][Next]_vars

-----------------------------------------------------------------------------
(* The filter by itself: it is applied to every candidate path under a     *)
(* package root, for every pair of pattern lists of bounded length.        *)

\* The longest include or exclude list.
MaxPatterns == 2

Patterns == {<<"*", ".rs">>, <<"sub", "/", "*">>, <<"Cargo", ".lock">>}

RECURSIVE PatternLists(_)
PatternLists(n) ==
    IF n = 0 THEN {<<>>}
    ELSE PatternLists(n - 1)
         \cup {Append(l, q) : l \in {x \in PatternLists(n - 1) : Len(x) = n - 1},
                              q \in Patterns}

FullTree ==
    [reserved |-> TRUE, sub |-> "pkg", rootgit |-> "work", sm |-> "open",
     ignoreTmp |-> FALSE, subRepo |-> FALSE]

FilterInit ==
    /\ updated = FALSE
    /\ packages = <<>>
    /\ disk = DiskOf(FullTree)
    /\ git = GitOf(FullTree)
    /\ manifest = ManifestOf([include |-> <<>>, exclude |-> <<>>])
    /\ env = 0
    /\ \E include \in PatternLists(MaxPatterns),
          exclude \in PatternLists(MaxPatterns),
          root \in {Root, Sub} :
          \E p \in {q \in Universe : StartsWith(q, root) /\ q # root} :
             last = [op |-> "candidate", include |-> include,
                     exclude |-> exclude, root |-> root, path |-> p]

ApplyFilter ==
    /\ last.op = "candidate"
    /\ last' = [last EXCEPT !.op = "filter"]
                 @@ [res |-> Filter(last.include, last.exclude, last.root,
                                    last.path)]
    /\ UNCHANGED <<updated, packages, disk, git, manifest, env>>

FilterNext == ApplyFilter

FilterSpec == FilterInit /\ [][FilterNext]_vars

-----------------------------------------------------------------------------
(* Properties *)

Listed(r) == {r.val[i] : i \in DOMAIN r.val}
Stored(pkg) == \E i \in DOMAIN packages : SamePkg(packages[i], pkg)
UsesGit(pkg) == RepoCandidates(pkg) # <<>>

\* The number a decimal string denotes.
RECURSIVE Value(_)
Value(tok) ==
    IF tok = <<>> THEN 0
    ELSE 10 * Value(SubSeq(tok, 1, Len(tok) - 1))
         + (CHOOSE d \in 0..9 : Digit[d + 1] = tok[Len(tok)])

\* C1: the filter returns true iff some include pattern matches the path
\* relative to the package root, or the include list is empty and no exclude
\* pattern matches it.
C1_FilterPolicy ==
    last.op = "filter" =>
        LET rel == ToStr(RelativeFrom(last.path, last.root))
        IN  last.res <=>
              \/ \E i \in DOMAIN last.include : Matches(last.include[i], rel)
              \/ /\ last.include = <<>>
                 /\ \A j \in DOMAIN last.exclude : ~Matches(last.exclude[j], rel)

\* The filter accepted a path that an exclude pattern matches, because an
\* include pattern matches it too.
C1_Witness ==
    /\ last.op = "filter"
    /\ last.res
    /\ last.include # <<>>
    /\ \E j \in DOMAIN last.exclude :
          Matches(last.exclude[j], ToStr(RelativeFrom(last.path, last.root)))

\* C2: list_files of a stored package of an updated source never returns the
\* entry Cargo.lock or target of the package's root directory.
C2_ReservedNeverListed ==
    (last.op = "list_files" /\ updated /\ Stored(last.pkg) /\ last.res.ok) =>
        /\ last.pkg.root \o <<"Cargo.lock">> \notin Listed(last.res)
        /\ last.pkg.root \o <<"target">> \notin Listed(last.res)

\* Packages A at /p and B at /p/sub are both stored.
BothStored ==
    /\ \E i \in DOMAIN packages : packages[i].root = Root
    /\ \E i \in DOMAIN packages : packages[i].root = Sub

\* What C3 says of a listing.
Bounded(pkg, files) ==
    /\ pkg.root = Root => \A f \in files : ~StartsWith(f, Sub)
    /\ pkg.root = Sub => \A f \in files : StartsWith(f, Sub)

C4_UpdateOnce ==
    [][ /\ updated => updated'
        /\ updated' # updated => last'.op = "update" /\ last'.res.ok
        /\ packages' # packages => ~updated /\ updated'
        /\ (last'.op = "update" /\ ~last'.res.ok) =>
              ~updated' /\ packages' = packages
        /\ (last'.op = "update" /\ updated) =>
              last'.res.ok /\ ~last'.reader /\ packages' = packages
      ]_vars

\* update was called on an updated source.
C4_Witness ==
    /\ last.op = "update" /\ ~last.reader /\ last.res.ok
    /\ updated /\ Len(packages) = 2

\* C5: on a source that is not updated fingerprint and root_package return
\* their internal faults, and fingerprint lists no files; on an updated
\* source root_package returns the stored package whose root is the source
\* path, or another internal fault when there is none; neither call changes
\* the flag or the collection.
C5_FaultsBeforeUpdate ==
    /\ [](/\ (last.op = "fingerprint" /\ ~updated) =>
                /\ ~last.res.ok
                /\ last.res.err = "BUG: source was not updated"
                /\ last.listed.err = "not called"
          /\ (last.op = "root_package" /\ ~updated) =>
                /\ ~last.res.ok
                /\ last.res.err = "source has not been updated"
          /\ (last.op = "root_package" /\ updated) =>
                IF \E i \in DOMAIN packages : packages[i].root = Root
                THEN /\ last.res.ok
                     /\ last.res.val.root = Root
                     /\ \E i \in DOMAIN packages : packages[i] = last.res.val
                ELSE /\ ~last.res.ok
                     /\ last.res.err = "no package found in source")
    /\ [][last'.op \in {"fingerprint", "root_package"} =>
             UNCHANGED <<updated, packages>>]_vars

\* root_package was called on an updated source that holds no package at
\* the source path.
C5_Witness ==
    /\ last.op = "root_package" /\ updated /\ ~last.res.ok
    /\ Len(packages) = 1

\* The mtime fingerprint counts for a listed file.
Counted(f, unreadable) ==
    IF f \in unreadable \/ ~Exists(f) THEN 0 ELSE disk[f].mtime

\* C6: on an updated source, when list_files succeeds, fingerprint succeeds
\* and returns the decimal string (no leading zero) of the greatest counted
\* mtime of the listed files, "0" when none is listed or none is readable.
C6_MaxMtime ==
    (last.op = "fingerprint" /\ updated /\ last.listed.ok) =>
        LET times == {Counted(f, last.unreadable) : f \in Listed(last.listed)}
                        \cup {0}
        IN  /\ last.res.ok
            /\ Value(last.res.val) \in times
            /\ \A t \in times : t <= Value(last.res.val)
            /\ Len(last.res.val) >= 1
            /\ Len(last.res.val) > 1 => last.res.val[1] # "0"
            /\ (\A f \in Listed(last.listed) : f \in last.unreadable)
                  => last.res.val = <<"0">>

\* A fingerprint of several files, the latest of them unreadable, that is
\* not "0".
C6_Witness ==
    /\ last.op = "fingerprint" /\ updated /\ last.res.ok
    /\ last.res.val # <<"0">>
    /\ \E f \in last.unreadable :
          /\ Exists(f)
          /\ \A g \in Listed(last.listed) : Counted(g, {}) <= disk[f].mtime

\* A fingerprint that directly follows the touch of a file its previous call
\* for the same package listed, every file readable in both calls.
AfterTouch ==
    /\ last.op = "fingerprint" /\ last.res.ok /\ last.unreadable = {}
    /\ last.after.op = "touch"
    /\ last.after.before.op = "fingerprint"
    /\ last.after.before.pkg = last.pkg
    /\ last.after.path \in Listed(last.after.before.listed)

\* C7 as stated: the token after the touch differs from the token before and
\* denotes a strictly later time.
C7_TouchChangesToken ==
    AfterTouch =>
        /\ last.res.val # last.after.before.res.val
        /\ Value(last.res.val) > Value(last.after.before.res.val)

\* C7 amended: the token changes, to the new mtime, exactly when the new
\* mtime is later than the time the previous token denotes; otherwise the
\* token is the same.
C7_TouchAboveMax ==
    AfterTouch =>
        IF last.after.mtime > Value(last.after.before.res.val)
        THEN /\ last.res.val # last.after.before.res.val
             /\ Value(last.res.val) = last.after.mtime
        ELSE last.res.val = last.after.before.res.val

\* The touch raised a file above the time of the previous token, which
\* covered several files.
C7_Witness ==
    /\ AfterTouch
    /\ last.after.mtime > Value(last.after.before.res.val)
    /\ Len(last.after.before.listed.val) > 1

\* The index of the repository at /p tracks exactly the files of the tree
\* (outside .git), and no submodule.
AllTracked ==
    /\ git[Root].kind = "work"
    /\ {Root \o git[Root].index[i] : i \in DOMAIN git[Root].index}
         = {q \in Universe : Kind(q) = "file" /\ \A i \in DOMAIN q : q[i] # ".git"}

\* C8: in a working tree with every file tracked and no submodule, the git
\* enumerator and the walk return the same set of files for a stored package.
C8_EnumeratorsAgree ==
    (last.op = "list_files" /\ updated /\ Stored(last.pkg) /\ AllTracked
        /\ UsesGit(last.pkg) /\ Head(RepoCandidates(last.pkg)) = Root
        /\ last.res.ok)
    => Listed(last.res) = Listed(list_files_walk(last.pkg))

\* C9: with the submodule sm declared in the index of /p, list_files through
\* the git enumerator contributes, under /p/sm, what the enumeration of the
\* submodule's repository returns when the submodule opens, and succeeds
\* with no path under /p/sm when it does not open.
C9_Submodule ==
    (last.op = "list_files" /\ updated /\ Stored(last.pkg)
        /\ last.pkg.root = Root /\ WellFormed(last.pkg)
        /\ UsesGit(last.pkg) /\ Head(RepoCandidates(last.pkg)) = Root
        /\ git[Root].kind = "work"
        /\ <<"sm">> \in git[Root].submodules
        /\ \E i \in DOMAIN git[Root].index : git[Root].index[i] = <<"sm">>)
    => IF SubmoduleOpens(Sm)
       THEN /\ last.res.ok
            /\ {f \in Listed(last.res) : StartsWith(f, Sm)}
                 = Listed(list_files_git(last.pkg, Sm))
       ELSE /\ last.res.ok
            /\ \A f \in Listed(last.res) : ~StartsWith(f, Sm)

\* C10: list_files of a package that is not stored, when no stored ancestor
\* root opens as a repository, returns an empty list for well-formed
\* patterns; the collection of a source that is not updated is empty; the
\* call changes neither the flag nor the collection.
C10_NotStoredEmpty ==
    /\ [](/\ ~updated => packages = <<>>
          /\ (last.op = "list_files" /\ ~Stored(last.pkg)
                /\ ~UsesGit(last.pkg) /\ WellFormed(last.pkg))
             => last.res.ok /\ last.res.val = <<>>)
    /\ [][last'.op = "list_files" => UNCHANGED <<updated, packages>>]_vars

\* list_files of a package of a tree with files, on a source that is not
\* updated.
C10_Witness ==
    /\ last.op = "list_files" /\ ~updated /\ last.res.ok
    /\ last.pkg.root = Root
    /\ Exists(<<"p", "a.rs">>)

====
